---- MODULE Spec2Model ----
(***************************************************************************)
(* Model of the authentication layer of quibo-mcp (lib/auth.ts and         *)
(* lib/config.ts as concatenated in src/src/index.ts, lines 917-1303).     *)
(*                                                                         *)
(* Time is counted in whole seconds, the unit of Math.floor(Date.now() /   *)
(* 1000) and of expires_in.  Strings that the code inspects or converts    *)
(* are sequences of one-character strings; a JavaScript number is a record *)
(* so that NaN and the null of a JSON round trip can be told apart from    *)
(* an integer.                                                             *)
(***************************************************************************)
EXTENDS Integers, Sequences, FiniteSets, TLC

\* ------------------------------------------------------------------ bounds
MaxTicks == 1          \* number of clock advances explored
MaxPort == 1           \* highest port offset (from the start port) probed

\* ------------------------------------------------------- program constants
CallbackTimeoutSec == 300   \* setTimeout(..., 5 * 60 * 1000)
DefaultExpiresIn == <<"3", "6", "0", "0">>   \* callbackParams.expires_in || '3600'

\* -------------------------------------------------------- JavaScript values
Undefined == <<"undefined">>          \* an absent query parameter / field
Truthy(s) == s # Undefined /\ s # <<>>
Or(a, b) == IF Truthy(a) THEN a ELSE b      \* a || b on strings

Num(n) == [k |-> "num", v |-> n]
NaN == [k |-> "nan", v |-> 0]
Null == [k |-> "null", v |-> 0]

\* a + b on numbers
JsAdd(a, b) == IF a.k = "nan" \/ b.k = "nan" THEN NaN ELSE Num(a.v + b.v)

\* mutant of JsGe: the expiry test written with > instead of >=
JsGeStrict(n, x) == CASE x.k = "num" -> n > x.v
                      [] x.k = "null" -> n > 0
                      [] OTHER -> FALSE

\* n >= x for an integer n; null converts to 0, any comparison with NaN is false
JsGe(n, x) == CASE x.k = "num" -> n >= x.v
                [] x.k = "null" -> n >= 0
                [] OTHER -> FALSE

Digits == <<"0", "1", "2", "3", "4", "5", "6", "7", "8", "9">>
IsDigit(c) == \E i \in 1..10 : Digits[i] = c
DigitVal(c) == (CHOOSE i \in 1..10 : Digits[i] = c) - 1

RECURSIVE ParseDigits(_, _)
ParseDigits(s, acc) ==
    IF s = <<>> \/ ~IsDigit(Head(s)) THEN acc
    ELSE ParseDigits(Tail(s), acc * 10 + DigitVal(Head(s)))

RECURSIVE SkipSpace(_)
SkipSpace(s) == IF s # <<>> /\ Head(s) = " " THEN SkipSpace(Tail(s)) ELSE s

\* parseInt(s, 10): leading blanks, an optional sign, then the longest run of
\* digits; NaN when there is no digit
parseInt(s) ==
    LET t == SkipSpace(s)
        neg == t # <<>> /\ Head(t) = "-"
        u == IF t # <<>> /\ (Head(t) = "-" \/ Head(t) = "+") THEN Tail(t) ELSE t
    IN IF u = <<>> \/ ~IsDigit(Head(u)) THEN NaN
       ELSE Num((IF neg THEN -1 ELSE 1) * ParseDigits(u, 0))

\* mutant of JsonNumber: the store keeps a number as it is in memory
JsonNumberKeepsNaN(x) == x

\* JSON.stringify followed by JSON.parse of a number (the conf store keeps the
\* record as a JSON document): NaN is written as null
JsonNumber(x) == IF x.k = "nan" THEN Null ELSE x

\* ------------------------------------------------------------ input domains
AccessTokens == {Undefined, <<"a">>, <<"b">>}
RefreshTokens == {Undefined, <<"r">>}
ExpiresIns == {Undefined, <<"0">>, <<"-", "1">>, <<"1", "0">>, <<"x">>}
Errors == {Undefined, <<"e">>}
ErrorDescriptions == {Undefined, <<"d">>}

\* what a request to the callback path can carry: a provider error (with or
\* without tokens beside it), an incomplete token pair, or a complete one with
\* every kind of expires_in
ErrorResults ==
    [access_token : {Undefined, <<"a">>}, refresh_token : RefreshTokens,
     expires_in : {Undefined}, error : Errors \ {Undefined},
     error_description : ErrorDescriptions]

PartialResults ==
    {p \in [access_token : AccessTokens, refresh_token : RefreshTokens,
            expires_in : {Undefined, <<"1", "0">>}, error : {Undefined},
            error_description : {Undefined}] :
        p.access_token = Undefined \/ p.refresh_token = Undefined}

TokenResults ==
    [access_token : AccessTokens \ {Undefined},
     refresh_token : RefreshTokens \ {Undefined},
     expires_in : ExpiresIns, error : {Undefined},
     error_description : {Undefined}]

OAuthCallbackParams == ErrorResults \cup PartialResults \cup TokenResults

NoParams == [access_token |-> Undefined, refresh_token |-> Undefined,
             expires_in |-> Undefined, error |-> Undefined,
             error_description |-> Undefined]

Paths == {"/callback", "/favicon.ico"}
Emails == {Undefined, <<"u">>}
TickSteps == {10, CallbackTimeoutSec, 3600}

\* ------------------------------------------------------------------- state
VARIABLES
    store,        \* the 'auth' key of the conf store: NoAuth or a StoredAuth
    now,          \* Math.floor(Date.now() / 1000)
    ticks,        \* clock advances so far
    pc,           \* position of the authenticate() call
    err,          \* the Error authenticate() threw, when pc = "failed"
    busy,         \* ports held by other processes
    probe,        \* port findAvailablePort is probing
    port,         \* port returned by findAvailablePort
    listener,     \* the callback http.Server
    conn,         \* a keep-alive connection to the callback server is open
    future,       \* the promise startCallbackServer returned
    cb,           \* the value the promise was resolved with
    timer,        \* the setTimeout of startCallbackServer
    deadline,     \* the time the timer is due
    browser,      \* the promise open(url).catch(...)
    loc,          \* locals of authenticate(): accessToken, refreshToken, expiresIn
    exchanged,    \* supabase.auth.setSession was called in this run
    ret,          \* result of the last checkAuth() / getAccessToken() call
    denied,       \* ports whose bind fails with an error other than EADDRINUSE
    probeSock,    \* the probe server of findAvailablePort holds its port
    replaced,     \* the persist step of this run overwrote another session
    peer,         \* interface the request that fulfilled the promise came in on
    tool,         \* the tool call the server is handling, or "none"
    call,         \* arguments of the last makeRequest(endpoint, options)
    apc,          \* position of that makeRequest call
    sent,         \* the outbound requests it has issued
    rsp,          \* what fetch settled with
    out,          \* what makeRequest returned or threw
    reply,        \* the response to the last tool call
    alive,        \* the server process is running
    args,         \* arguments of the authenticate tool call in progress
    redirectUrl,  \* redirectTo given to supabase.auth.signInWithOAuth
    authUrl,      \* data.url returned by supabase.auth.signInWithOAuth
    bound,        \* ports the callback server of this call is bound on
    inv,          \* overlapping authenticate() calls: position and locals of each
    last,         \* the call whose saveAuth ran last, 0 when none has
    gen           \* the generate_content call: position, arguments, backend calls

vars == <<store, now, ticks, pc, err, busy, probe, port, listener, conn,
          future, cb, timer, deadline, browser, loc, exchanged, ret,
          denied, probeSock, replaced, peer,
          tool, call, apc, sent, rsp, out, reply, alive,
          args, redirectUrl, authUrl, bound, inv, last, gen>>

apiVars == <<tool, call, apc, sent, rsp, out, reply, alive>>

\* what the tool handler around authenticate() sees and passes
extVars == <<args, redirectUrl, authUrl, bound>>

\* authenticate() calls in flight at the same time
callVars == <<inv, last>>

outerVars == <<apiVars, extVars, callVars, gen>>

flow == <<pc, err, busy, probe, port, listener, conn, future, cb, timer,
          deadline, browser, loc, exchanged, denied, probeSock, replaced, peer>>

NoAuth == [present |-> FALSE]
NoErr == [kind |-> "none", msg |-> Undefined]
NoLoc == [accessToken |-> Undefined, refreshToken |-> Undefined, expiresIn |-> NaN]
NoRet == [op |-> "none"]

Error(kind, msg) == [kind |-> kind, msg |-> msg]

NoCall == [endpoint |-> <<>>, headers |-> {}]
NoRsp == [kind |-> "none", status |-> 0, body |-> "", ctype |-> ""]
NoOut == [kind |-> "none", class |-> "none", status |-> 0, msg |-> <<>>, value |-> {}]
NoReply == [isError |-> FALSE, text |-> <<>>]

NoArgs == [redirect_uri |-> <<>>]
NoGen == [pc |-> "idle", op |-> "", specific |-> {}, count |-> 0, i |-> 0, log |-> <<>>, ok |-> 0]
NoUrl == <<>>

\* no authenticate tool call has been made
ExtIdle ==
    /\ args = NoArgs
    /\ redirectUrl = NoUrl
    /\ authUrl = NoUrl
    /\ bound = {}
    /\ inv = <<>>
    /\ last = 0
    /\ gen = NoGen

\* the server is started and has handled no tool call
ApiIdle ==
    /\ tool = "none"
    /\ call = NoCall
    /\ apc = "idle"
    /\ sent = <<>>
    /\ rsp = NoRsp
    /\ out = NoOut
    /\ reply = NoReply
    /\ alive = TRUE

\* ------------------------------------------------------------ config.ts
getAuth == store

\* mutant of setAuth: a stored session is not overwritten
setAuthFirstWins(auth) ==
    store' = IF store.present THEN store
             ELSE [auth EXCEPT !.expiresAt = JsonNumber(auth.expiresAt)]

setAuth(auth) ==
    store' = [auth EXCEPT !.expiresAt = JsonNumber(auth.expiresAt)]

\* mutant of clearStoredAuth: the session is expired instead of deleted
clearStoredAuthExpires ==
    store' = IF store.present THEN [store EXCEPT !.expiresAt = Num(0)] ELSE store

clearStoredAuth == store' = NoAuth

\* ------------------------------------------------------------ auth.ts
\* mutant of checkAuth: an expired session is reported like no session
checkAuthHidesExpired ==
    LET auth == getAuth IN
    IF ~auth.present \/ JsGe(now, auth.expiresAt)
    THEN [authenticated |-> FALSE, isExpired |-> TRUE,
          email |-> Undefined, expiresAt |-> Null, hasSession |-> FALSE]
    ELSE [authenticated |-> TRUE, isExpired |-> FALSE,
          email |-> auth.email, expiresAt |-> auth.expiresAt, hasSession |-> TRUE]

checkAuth ==
    LET auth == getAuth IN
    IF ~auth.present
    THEN [authenticated |-> FALSE, isExpired |-> TRUE,
          email |-> Undefined, expiresAt |-> Null, hasSession |-> FALSE]
    ELSE LET isExpired == JsGe(now, auth.expiresAt) IN
         [authenticated |-> ~isExpired, isExpired |-> isExpired,
          email |-> auth.email, expiresAt |-> auth.expiresAt, hasSession |-> TRUE]

\* mutant of getAccessToken: the wrong field of the record is returned
getAccessTokenWrongField ==
    LET auth == getAuth IN
    IF ~auth.present THEN [ok |-> FALSE, error |-> "NotAuthenticated", token |-> Undefined]
    ELSE IF JsGe(now, auth.expiresAt)
         THEN [ok |-> FALSE, error |-> "TokenExpired", token |-> Undefined]
         ELSE [ok |-> TRUE, error |-> "none", token |-> auth.refreshToken]

\* mutant of getAccessToken: an expired session is reported as no session
getAccessTokenOneError ==
    LET auth == getAuth IN
    IF ~auth.present THEN [ok |-> FALSE, error |-> "NotAuthenticated", token |-> Undefined]
    ELSE IF JsGe(now, auth.expiresAt)
         THEN [ok |-> FALSE, error |-> "NotAuthenticated", token |-> Undefined]
         ELSE [ok |-> TRUE, error |-> "none", token |-> auth.accessToken]

getAccessToken ==
    LET auth == getAuth IN
    IF ~auth.present THEN [ok |-> FALSE, error |-> "NotAuthenticated", token |-> Undefined]
    ELSE IF JsGe(now, auth.expiresAt)
         THEN [ok |-> FALSE, error |-> "TokenExpired", token |-> Undefined]
         ELSE [ok |-> TRUE, error |-> "none", token |-> auth.accessToken]

Init ==
    /\ store = NoAuth
    /\ now = 0
    /\ ticks = 0
    /\ pc = "idle"
    /\ err = NoErr
    /\ busy = {}
    /\ probe = 0
    /\ port = 0
    /\ listener = "none"
    /\ conn = FALSE
    /\ future = "none"
    /\ cb = NoParams
    /\ timer = "none"
    /\ deadline = 0
    /\ browser = "none"
    /\ loc = NoLoc
    /\ exchanged = FALSE
    /\ ret = NoRet
    /\ denied = {}
    /\ probeSock = FALSE
    /\ replaced = FALSE
    /\ peer = "none"
    /\ ApiIdle
    /\ ExtIdle

\* the locals of a call of authenticate() go with it when it ends
DropLocals ==
    /\ busy' = {}
    /\ probe' = 0
    /\ port' = 0
    /\ cb' = NoParams
    /\ loc' = NoLoc
    /\ deadline' = 0
    /\ denied' = {}
    /\ probeSock' = FALSE

\* authenticate() throws: the call ends with the error
Throw(kind, msg) ==
    /\ pc' = "failed"
    /\ err' = Error(kind, msg)
    /\ DropLocals

\* authenticate() is called (a call in progress runs to its end first)
AuthStart ==
    /\ pc \in {"idle", "done", "failed"}
    /\ pc' = "probing"
    /\ err' = NoErr
    /\ \E b \in SUBSET (0..(MaxPort - 1)) : busy' = b
    /\ \E d \in SUBSET (0..MaxPort) : denied' = d \ busy'
    /\ probeSock' = FALSE
    /\ replaced' = FALSE
    /\ peer' = "none"
    /\ probe' = 0
    /\ port' = 0
    /\ listener' = "none"
    /\ conn' = FALSE
    /\ future' = "none"
    /\ cb' = NoParams
    /\ timer' = "none"
    /\ deadline' = 0
    /\ browser' = "none"
    /\ loc' = NoLoc
    /\ exchanged' = FALSE
    /\ ret' = NoRet
    /\ UNCHANGED <<store, now, ticks>>

\* mutant of findAvailablePort: the recursion skips a port
findAvailablePortSkips ==
    /\ pc = "probing"
    /\ \/ /\ probe \in busy
          /\ probe' = probe + 2
          /\ UNCHANGED <<pc, err, busy, port, cb, loc, deadline, denied, probeSock>>
       \/ /\ probe \notin busy /\ probe \notin denied
          /\ pc' = "releasing"
          /\ probeSock' = TRUE
          /\ UNCHANGED <<err, busy, probe, port, cb, loc, deadline, denied>>
       \/ /\ probe \in denied
          /\ Throw("PortError", Undefined)
    /\ ret' = NoRet
    /\ UNCHANGED <<store, now, ticks, listener, conn, future, timer, browser,
                   exchanged, replaced, peer>>

\* mutant of findAvailablePort: every bind error is taken for a busy port
findAvailablePortRetriesAll ==
    /\ pc = "probing"
    /\ \/ /\ probe \in busy \/ probe \in denied
          /\ probe' = probe + 1
          /\ UNCHANGED <<pc, err, busy, port, cb, loc, deadline, denied, probeSock>>
       \/ /\ probe \notin busy /\ probe \notin denied
          /\ pc' = "releasing"
          /\ probeSock' = TRUE
          /\ UNCHANGED <<err, busy, probe, port, cb, loc, deadline, denied>>
    /\ ret' = NoRet
    /\ UNCHANGED <<store, now, ticks, listener, conn, future, timer, browser,
                   exchanged, replaced, peer>>

\* findAvailablePort(startPort): one bind attempt on the probed port.  A port
\* is held by another process (busy), refuses the bind for another reason
\* (denied), or is free
findAvailablePort ==
    /\ pc = "probing"
    /\ \/ /\ probe \in busy                 \* 'error' with code EADDRINUSE
          /\ probe' = probe + 1
          /\ UNCHANGED <<pc, err, busy, port, cb, loc, deadline, denied, probeSock>>
       \/ /\ probe \notin busy /\ probe \notin denied   \* listening: server.close(...)
          /\ pc' = "releasing"
          /\ probeSock' = TRUE
          /\ UNCHANGED <<err, busy, probe, port, cb, loc, deadline, denied>>
       \/ /\ probe \in denied                \* 'error' with any other code
          /\ Throw("PortError", Undefined)
    /\ ret' = NoRet
    /\ UNCHANGED <<store, now, ticks, listener, conn, future, timer, browser,
                   exchanged, replaced, peer>>

\* the close callback of the probe server: the port is released and
\* findAvailablePort resolves with it
ProbeClosed ==
    /\ pc = "releasing"
    /\ probeSock' = FALSE
    /\ port' = probe
    /\ pc' = "authurl"
    /\ busy' = {}
    /\ denied' = {}
    /\ probe' = 0
    /\ ret' = NoRet
    /\ UNCHANGED <<store, now, ticks, err, listener, conn, future, cb, timer,
                   deadline, browser, loc, exchanged, replaced, peer>>

\* another process binds the allocated port after the probe released it
TakePort ==
    /\ pc = "authurl" \/ listener = "binding"
    /\ port \notin busy
    /\ busy' = busy \cup {port}
    /\ ret' = NoRet
    /\ UNCHANGED <<store, now, ticks, pc, err, probe, port, denied, probeSock, listener, conn,
                   future, cb, timer, deadline, browser, loc, exchanged, replaced, peer>>

\* mutant of startCallbackServer: the timeout is never set
startCallbackServerNoTimer ==
    /\ timer' = "none"
    /\ deadline' = now + CallbackTimeoutSec
    /\ listener' = "binding"
    /\ future' = "pending"

\* startCallbackServer(port), the synchronous part of the executor: the timer
\* is set, the server created and listen() requested
startCallbackServer ==
    /\ timer' = "armed"
    /\ deadline' = now + CallbackTimeoutSec
    /\ listener' = "binding"
    /\ future' = "pending"

\* supabase.auth.signInWithOAuth returns; on success the callback server and
\* the browser launch are started together (Promise.all)
\* mutant of AuthUrlReturned: the callback server is started before the
\* result of signInWithOAuth is looked at
AuthUrlReturnedServerFirst ==
    /\ pc = "authurl"
    /\ \/ /\ Throw("AuthUrlMissing", Undefined)
          /\ listener' = "binding"
          /\ UNCHANGED <<future, timer, browser>>
       \/ /\ pc' = "waiting"
          /\ startCallbackServer
          /\ browser' = "launching"
          /\ UNCHANGED <<err, busy, probe, port, denied, probeSock, cb, loc>>
    /\ ret' = NoRet
    /\ UNCHANGED <<store, now, ticks, conn, exchanged, replaced, peer>>

AuthUrlReturned ==
    /\ pc = "authurl"
    /\ \/ /\ Throw("AuthUrlMissing", Undefined)      \* error || !data.url
          /\ UNCHANGED <<listener, future, timer, browser>>
       \/ /\ pc' = "waiting"
          /\ startCallbackServer
          /\ browser' = "launching"
          /\ UNCHANGED <<err, busy, probe, port, denied, probeSock, cb, loc>>
    /\ ret' = NoRet
    /\ UNCHANGED <<store, now, ticks, conn, exchanged, replaced, peer>>

\* server.listen(port, ...) succeeds; the port number is not read again
ListenerBound ==
    /\ listener = "binding"
    /\ port \notin busy
    /\ listener' = "listening"
    /\ port' = 0
    /\ ret' = NoRet
    /\ UNCHANGED <<store, now, ticks, pc, err, busy, probe, conn, future,
                   cb, timer, deadline, browser, loc, exchanged, denied,
                   probeSock, replaced, peer>>

\* mutant of ListenerError: a port taken in the meantime is answered with a
\* new search from the next port
ListenerErrorRetries ==
    /\ listener = "binding"
    /\ port \in busy
    /\ listener' = "none"
    /\ timer' = "cleared"
    /\ future' = "none"
    /\ pc' = "probing"
    /\ probe' = port + 1
    /\ port' = 0
    /\ UNCHANGED <<err, busy, denied, probeSock, cb, loc, deadline>>
    /\ ret' = NoRet
    /\ UNCHANGED <<store, now, ticks, conn, browser, exchanged, replaced, peer>>

\* server.on('error'): clearTimeout(timeout); reject(err).  The rejection ends
\* Promise.all and with it authenticate()
ListenerError ==
    /\ listener = "binding"
    /\ port \in busy
    /\ listener' = "error"
    /\ timer' = IF timer = "armed" THEN "cleared" ELSE timer
    /\ IF future = "pending"
       THEN /\ future' = "rejected"
            /\ Throw("BindError", Undefined)
       ELSE UNCHANGED <<future, pc, err, busy, probe, port, denied, probeSock, cb, loc, deadline>>
    /\ ret' = NoRet
    /\ UNCHANGED <<store, now, ticks, conn, browser, exchanged, replaced, peer>>

\* mutant of Resolve: a late resolve replaces the outcome of a settled promise
ResolveAlways(p) ==
    /\ future' = "resolved"
    /\ cb' = p

\* server.listen(port, callback) names no host, so Node binds the unspecified
\* address and the server accepts connections on every interface of the host
ListenAddress == "unspecified"
Interfaces == {"loopback", "external"}
Accepts(iface) == ListenAddress = "unspecified" \/ iface = ListenAddress

\* resolve(params) of the promise of startCallbackServer: a settled promise
\* stays as it is
Resolve(p) ==
    IF future = "pending"
    THEN /\ future' = "resolved"
         /\ cb' = p
    ELSE UNCHANGED <<future, cb>>

\* the status line the request handler writes for a path
Status(path) == IF path = "/callback" THEN 200 ELSE 404

\* mutant of HttpRequest: clearTimeout runs for every path
HttpRequestClearsTimer(path, p, keep) ==
    /\ listener = "listening" \/ (listener = "closed" /\ conn)
    /\ conn' = keep
    /\ timer' = IF timer = "armed" THEN "cleared" ELSE timer
    /\ IF path = "/callback"
       THEN /\ listener' = "closed"
            /\ Resolve(p)
       ELSE UNCHANGED <<listener, future, cb>>
    /\ ret' = NoRet
    /\ UNCHANGED <<store, now, ticks, pc, err, busy, probe, port, denied, probeSock, deadline,
                   browser, loc, exchanged, replaced>>

\* mutant of HttpRequest: the callback request does not close the server
HttpRequestKeepsListening(path, p, keep) ==
    /\ listener = "listening" \/ (listener = "closed" /\ conn)
    /\ conn' = keep
    /\ IF path = "/callback"
       THEN /\ timer' = IF timer = "armed" THEN "cleared" ELSE timer
            /\ listener' = listener
            /\ Resolve(p)
       ELSE UNCHANGED <<timer, listener, future, cb>>
    /\ ret' = NoRet
    /\ UNCHANGED <<store, now, ticks, pc, err, busy, probe, port, denied, probeSock, deadline,
                   browser, loc, exchanged, replaced>>

\* mutant of HttpRequest: the callback request does not cancel the timer
HttpRequestLeavesTimer(path, p, keep) ==
    /\ listener = "listening" \/ (listener = "closed" /\ conn)
    /\ conn' = keep
    /\ timer' = timer
    /\ IF path = "/callback"
       THEN /\ listener' = "closed"
            /\ Resolve(p)
       ELSE UNCHANGED <<listener, future, cb>>
    /\ ret' = NoRet
    /\ UNCHANGED <<store, now, ticks, pc, err, busy, probe, port, denied, probeSock, deadline,
                   browser, loc, exchanged, replaced>>

\* the request handler of the callback server; a request reaches it through a
\* new connection while the server listens, or through a connection that was
\* kept alive when the server was closed
HttpRequest(path, p, keep) ==
    /\ listener = "listening" \/ (listener = "closed" /\ conn)
    /\ conn' = keep
    /\ IF path = "/callback"
       THEN /\ timer' = IF timer = "armed" THEN "cleared" ELSE timer
            /\ listener' = "closed"
            /\ Resolve(p)
       ELSE UNCHANGED <<timer, listener, future, cb>>
    /\ ret' = NoRet
    /\ UNCHANGED <<store, now, ticks, pc, err, busy, probe, port, denied, probeSock, deadline,
                   browser, loc, exchanged, replaced>>

\* a request arrives; its query matters only on the callback path while the
\* promise is pending
Request ==
    \/ \E p \in OAuthCallbackParams, keep \in BOOLEAN :
          future = "pending" /\ HttpRequest("/callback", p, keep) /\ peer' = peer
    \/ \E keep \in BOOLEAN :
          future # "pending" /\ HttpRequest("/callback", NoParams, keep) /\ peer' = peer
    \/ \E path \in Paths \ {"/callback"}, keep \in BOOLEAN :
          HttpRequest(path, NoParams, keep) /\ peer' = peer

\* a request arrives on an interface the server accepts connections on; the
\* interface of the request that fulfils the promise is recorded
RequestVia ==
    \/ \E p \in OAuthCallbackParams, keep \in BOOLEAN, iface \in Interfaces :
          /\ future = "pending"
          /\ Accepts(iface)
          /\ HttpRequest("/callback", p, keep)
          /\ peer' = iface
    \/ \E keep \in BOOLEAN :
          future # "pending" /\ HttpRequest("/callback", NoParams, keep) /\ peer' = peer
    \/ \E path \in Paths \ {"/callback"}, keep \in BOOLEAN, iface \in Interfaces :
          Accepts(iface) /\ HttpRequest(path, NoParams, keep) /\ peer' = peer

\* reject(...) of the promise of startCallbackServer from the timer callback;
\* the rejection ends Promise.all and with it authenticate()
RejectTimeout ==
    IF future = "pending"
    THEN /\ future' = "rejected"
         /\ Throw("CallbackTimeout", Undefined)
    ELSE UNCHANGED <<future, pc, err, busy, probe, port, denied, probeSock, cb, loc, deadline>>

\* the setTimeout callback: server.close(); reject(timeout error)
TimeoutFire ==
    /\ timer = "armed"
    /\ now >= deadline
    /\ timer' = "fired"
    /\ listener' = "closed"
    /\ RejectTimeout
    /\ ret' = NoRet
    /\ UNCHANGED <<store, now, ticks, conn, browser, exchanged, replaced, peer>>

\* mutant of BrowserSettled: no .catch on open(), so a failed launch rejects
\* Promise.all
BrowserSettledNoCatch(ok) ==
    /\ browser = "launching"
    /\ browser' = IF ok THEN "opened" ELSE "failed"
    /\ IF ~ok /\ pc = "waiting"
       THEN Throw("BrowserLaunchFailed", Undefined)
       ELSE UNCHANGED <<pc, err, busy, probe, port, denied, probeSock, cb, loc, deadline>>

\* open(data.url).catch(warn) settles: ok = the browser was launched; a failure
\* is caught and logged, the promise is fulfilled either way
BrowserSettled(ok) ==
    /\ browser = "launching"
    /\ browser' = IF ok THEN "opened" ELSE "failed"
    /\ UNCHANGED <<pc, err, busy, probe, port, denied, probeSock, cb, loc, deadline>>

BrowserLaunch ==
    /\ \E ok \in BOOLEAN : BrowserSettled(ok)
    /\ ret' = NoRet
    /\ UNCHANGED <<store, now, ticks, listener, conn, future, timer, exchanged, replaced, peer>>

\* mutant of AfterCallback: the tokens are saved as soon as they are harvested,
\* before the session exchange
AfterCallbackPersistEarly(p) ==
    IF Truthy(p.error)
    THEN /\ Throw("OAuthProviderError", Or(p.error_description, p.error))
         /\ UNCHANGED <<store, exchanged>>
    ELSE IF ~Truthy(p.access_token) \/ ~Truthy(p.refresh_token)
         THEN /\ Throw("MissingTokens", Undefined)
              /\ UNCHANGED <<store, exchanged>>
         ELSE /\ pc' = "exchange"
              /\ loc' = [accessToken |-> p.access_token,
                         refreshToken |-> p.refresh_token,
                         expiresIn |-> parseInt(Or(p.expires_in, DefaultExpiresIn))]
              /\ store' = [present |-> TRUE,
                           accessToken |-> p.access_token,
                           refreshToken |-> p.refresh_token,
                           expiresAt |-> Null,
                           email |-> <<>>,
                           id |-> <<>>]
              /\ cb' = NoParams
              /\ exchanged' = TRUE
              /\ UNCHANGED <<err, busy, probe, port, denied, probeSock, deadline>>

\* mutant of AfterCallback: token presence is examined before the error field
AfterCallbackTokensFirst(p) ==
    /\ store' = store
    /\ IF ~Truthy(p.access_token) \/ ~Truthy(p.refresh_token)
       THEN /\ Throw("MissingTokens", Undefined)
            /\ exchanged' = exchanged
       ELSE IF Truthy(p.error)
            THEN /\ Throw("OAuthProviderError", Or(p.error_description, p.error))
                 /\ exchanged' = exchanged
            ELSE /\ pc' = "exchange"
                 /\ loc' = [accessToken |-> p.access_token,
                            refreshToken |-> p.refresh_token,
                            expiresIn |-> parseInt(Or(p.expires_in, DefaultExpiresIn))]
                 /\ cb' = NoParams
                 /\ exchanged' = TRUE
                 /\ UNCHANGED <<err, busy, probe, port, denied, probeSock, deadline>>

\* mutant of AfterCallback: the token test written with && instead of ||
AfterCallbackBothMissing(p) ==
    /\ store' = store
    /\ IF Truthy(p.error)
       THEN /\ Throw("OAuthProviderError", Or(p.error_description, p.error))
            /\ exchanged' = exchanged
       ELSE IF ~Truthy(p.access_token) /\ ~Truthy(p.refresh_token)
            THEN /\ Throw("MissingTokens", Undefined)
                 /\ exchanged' = exchanged
            ELSE /\ pc' = "exchange"
                 /\ loc' = [accessToken |-> p.access_token,
                            refreshToken |-> p.refresh_token,
                            expiresIn |-> parseInt(Or(p.expires_in, DefaultExpiresIn))]
                 /\ cb' = NoParams
                 /\ exchanged' = TRUE
                 /\ UNCHANGED <<err, busy, probe, port, denied, probeSock, deadline>>

\* authenticate() after Promise.all resolved with callbackParams = p, up to the
\* call of supabase.auth.setSession
AfterCallback(p) ==
    /\ store' = store
    /\ IF Truthy(p.error)
       THEN /\ Throw("OAuthProviderError", Or(p.error_description, p.error))
            /\ exchanged' = exchanged
       ELSE LET accessToken == p.access_token
                refreshToken == p.refresh_token
                expiresIn == parseInt(Or(p.expires_in, DefaultExpiresIn))
            IN IF ~Truthy(accessToken) \/ ~Truthy(refreshToken)
               THEN /\ Throw("MissingTokens", Undefined)
                    /\ exchanged' = exchanged
               ELSE /\ pc' = "exchange"
                    /\ loc' = [accessToken |-> accessToken,
                               refreshToken |-> refreshToken,
                               expiresIn |-> expiresIn]
                    /\ cb' = NoParams
                    /\ exchanged' = TRUE
                    /\ UNCHANGED <<err, busy, probe, port, denied, probeSock, deadline>>

\* Promise.all resolves once both the callback promise and the browser promise
\* are fulfilled, and authenticate() goes on
Joined ==
    /\ pc = "waiting"
    /\ future = "resolved"
    /\ browser \in {"opened", "failed"}
    /\ AfterCallback(cb)
    /\ ret' = NoRet
    /\ UNCHANGED <<now, ticks, listener, conn, future, timer, browser, replaced, peer>>

\* the StoredAuth authenticate() builds from its locals and the user
StoredAuth(email) ==
    [present |-> TRUE,
     accessToken |-> loc.accessToken,
     refreshToken |-> loc.refreshToken,
     expiresAt |-> JsAdd(Num(now), loc.expiresIn),
     email |-> Or(email, <<>>),
     id |-> <<"i">>]

\* supabase.auth.setSession returns: r = "ok" with a user, or an error, or no
\* user; with a user the session is built and saved
ExchangeReturned(r, email) ==
    /\ pc = "exchange"
    /\ IF r = "ok"
       THEN /\ setAuth(StoredAuth(email))
            /\ replaced' = store.present
            /\ pc' = "done"
            /\ err' = err
            /\ DropLocals
       ELSE /\ Throw("SessionExchangeFailed", Undefined)
            /\ store' = store
            /\ replaced' = replaced

SessionExchange ==
    /\ \E r \in {"ok", "error", "nouser"}, email \in Emails : ExchangeReturned(r, email)
    /\ ret' = NoRet
    /\ UNCHANGED <<now, ticks, listener, conn, future, timer, browser, exchanged, peer>>

\* mutant of CheckAuthCall: an expired session is deleted when it is seen
CheckAuthCallPurges ==
    /\ ret' = [op |-> "checkAuth", val |-> checkAuth]
    /\ store' = IF checkAuth.hasSession /\ checkAuth.isExpired THEN NoAuth ELSE store
    /\ UNCHANGED <<now, ticks>>
    /\ UNCHANGED flow

\* the tool handlers that read or clear the session
CheckAuthCall ==
    /\ ret' = [op |-> "checkAuth", val |-> checkAuth]
    /\ UNCHANGED <<store, now, ticks>>
    /\ UNCHANGED flow

GetAccessTokenCall ==
    /\ ret' = [op |-> "getAccessToken", val |-> getAccessToken]
    /\ UNCHANGED <<store, now, ticks>>
    /\ UNCHANGED flow

clearAuth ==
    /\ clearStoredAuth
    /\ ret' = NoRet
    /\ UNCHANGED <<now, ticks>>
    /\ UNCHANGED flow

\* time passes; the timer callback runs when it is due, so the clock does not
\* pass the due time of an armed timer
Tick(d) ==
    /\ ticks < MaxTicks
    /\ timer = "armed" => now + d <= deadline
    /\ now' = now + d
    /\ ticks' = ticks + 1
    /\ ret' = NoRet
    /\ UNCHANGED store
    /\ UNCHANGED flow

Clock == \E d \in TickSteps : Tick(d)

Next ==
    \/ AuthStart /\ UNCHANGED outerVars
    \/ findAvailablePort /\ UNCHANGED outerVars
    \/ ProbeClosed /\ UNCHANGED outerVars
    \/ TakePort /\ UNCHANGED outerVars
    \/ AuthUrlReturned /\ UNCHANGED outerVars
    \/ ListenerBound /\ UNCHANGED outerVars
    \/ ListenerError /\ UNCHANGED outerVars
    \/ Request /\ UNCHANGED outerVars
    \/ TimeoutFire /\ UNCHANGED outerVars
    \/ BrowserLaunch /\ UNCHANGED outerVars
    \/ Joined /\ UNCHANGED outerVars
    \/ SessionExchange /\ UNCHANGED outerVars
    \/ CheckAuthCall /\ UNCHANGED outerVars
    \/ GetAccessTokenCall /\ UNCHANGED outerVars
    \/ clearAuth /\ UNCHANGED outerVars
    \/ Clock /\ UNCHANGED outerVars

Spec == Init /\ [][Next]_vars

\* ------------------------------------------------- the callback server alone
\* authenticate() has called startCallbackServer(port) and open(url): the
\* state AuthUrlReturned leaves, with no session stored
ListenInit ==
    /\ store = NoAuth
    /\ now = 0
    /\ ticks = 0
    /\ pc = "waiting"
    /\ err = NoErr
    /\ busy = {}
    /\ probe = 0
    /\ port = 0
    /\ listener = "binding"
    /\ conn = FALSE
    /\ future = "pending"
    /\ cb = NoParams
    /\ timer = "armed"
    /\ deadline = CallbackTimeoutSec
    /\ browser = "launching"
    /\ loc = NoLoc
    /\ exchanged = FALSE
    /\ ret = NoRet
    /\ denied = {}
    /\ probeSock = FALSE
    /\ replaced = FALSE
    /\ peer = "none"
    /\ ApiIdle
    /\ ExtIdle

ListenNext ==
    \/ ListenerBound /\ UNCHANGED outerVars
    \/ RequestVia /\ UNCHANGED outerVars
    \/ TimeoutFire /\ UNCHANGED outerVars
    \/ BrowserLaunch /\ UNCHANGED outerVars
    \/ Clock /\ UNCHANGED outerVars

ListenSpec == ListenInit /\ [][ListenNext]_vars

\* ------------------------------------------------------------------ api.ts
\* strings are sequences of pieces; includes() is asked for whole pieces only
Includes(seq, piece) == \E i \in DOMAIN seq : seq[i] = piece

\* store.get('backendUrl')
BackendUrl == "https://backend"

\* endpoints the exported operations build, and two more that set the 404
\* rules against each other
Endpoints ==
    {<<"/project_status/", "p">>,
     <<"/projects">>,
     <<"/api/v2", "/projects/", "p", "/outline/", "regenerate">>,
     <<"/outline/", "x">>,
     <<"/section/", "1">>,
     <<"/section/", "1", "/outline/", "x">>}

\* options.headers as a set of <<name, value>> pairs: none, the JSON content
\* type the exported operations pass, and a header set with its own
\* Authorization entry
HeaderSets ==
    {{},
     {<<"Content-Type", <<"application/json">>>>},
     {<<"Content-Type", <<"application/json">>>>, <<"Authorization", <<"Basic ", "x">>>>}}

\* { ...a, ...b }: an entry of b replaces the entry of a with the same name
Spread(a, b) == {h \in a : \A g \in b : g[1] # h[1]} \cup b

\* headers: { Authorization: `Bearer ${token}`, ...options.headers }
RequestHeaders(token, headers) ==
    Spread({<<"Authorization", <<"Bearer ">> \o token>>}, headers)

Statuses == {200, 201, 401, 403, 404, 500}
Ok(status) == status \in 200..299            \* response.ok

Bodies ==
    {"", "oops", "null", "{\"detail\":\"boom\"}", "{\"message\":\"bad\"}",
     "{\"detail\":\"boom\",\"message\":\"bad\"}", "{\"error\":\"x\"}"}

ContentTypes == {"", "text/plain", "application/json; charset=utf-8"}

\* contentType?.includes('application/json')
IsJsonType(ctype) == ctype \in {"application/json", "application/json; charset=utf-8"}

\* JSON.parse on the bodies above: whether the text parses, whether it is
\* null, and the members of the object as <<name, value>> pairs
JSONparse(text) ==
    CASE text = "null" ->
           [valid |-> TRUE, null |-> TRUE, members |-> {}]
      [] text = "{\"detail\":\"boom\"}" ->
           [valid |-> TRUE, null |-> FALSE, members |-> {<<"detail", "boom">>}]
      [] text = "{\"message\":\"bad\"}" ->
           [valid |-> TRUE, null |-> FALSE, members |-> {<<"message", "bad">>}]
      [] text = "{\"detail\":\"boom\",\"message\":\"bad\"}" ->
           [valid |-> TRUE, null |-> FALSE,
            members |-> {<<"detail", "boom">>, <<"message", "bad">>}]
      [] text = "{\"error\":\"x\"}" ->
           [valid |-> TRUE, null |-> FALSE, members |-> {<<"error", "x">>}]
      [] OTHER ->
           [valid |-> FALSE, null |-> FALSE, members |-> {}]

\* json.name: the value of the member, "" (falsy) when the object has none
Member(json, name) ==
    IF \E m \in json.members : m[1] = name
    THEN (CHOOSE m \in json.members : m[1] = name)[2]
    ELSE ""

\* the values makeRequest returns: the value response.json() parsed, null
\* being a value of its own, or the text of the body
JsonValue(json) == IF json.null THEN {<<"null">>} ELSE json.members
TextValue(text) == {<<text>>}

\* what fetch settles with: a response, or a rejection with undici's
\* TypeError('fetch failed')
Responses ==
    [kind : {"response"}, status : Statuses, body : Bodies, ctype : ContentTypes]
Failure == [kind |-> "failure", status |-> 0, body |-> "", ctype |-> ""]

Thrown(class, status, msg) ==
    [kind |-> "thrown", class |-> class, status |-> status, msg |-> msg, value |-> {}]
Returned(form, value) ==
    [kind |-> "returned", class |-> form, status |-> 0, msg |-> <<>>, value |-> value]

\* the messages of the errors getAccessToken() throws
TokenMessage(error) ==
    IF error = "NotAuthenticated"
    THEN "Not authenticated. Please run authentication first."
    ELSE "Access token has expired. Please re-authenticate."

SessionExpiredMessage ==
    "Your session has expired. Please re-authenticate using the authenticate tool."

\* mutant of ResourceName: the outline rule is tried first
ResourceNameOutlineFirst(endpoint) ==
    IF Includes(endpoint, "/outline/") THEN "Outline"
    ELSE IF Includes(endpoint, "/projects/") THEN "Project"
    ELSE IF Includes(endpoint, "/section/") THEN "Section"
    ELSE "Resource"

ResourceName(endpoint) ==
    IF Includes(endpoint, "/projects/") THEN "Project"
    ELSE IF Includes(endpoint, "/outline/") THEN "Outline"
    ELSE IF Includes(endpoint, "/section/") THEN "Section"
    ELSE "Resource"

\* the message built for a non-ok status other than 401 and 404
ErrorMessage(status, text) ==
    LET base == <<"API request failed with status ", ToString(status)>>
        json == JSONparse(text)
    IN  IF json.valid /\ ~json.null
        THEN IF Member(json, "detail") # "" THEN base \o <<": ", Member(json, "detail")>>
             ELSE IF Member(json, "message") # ""
             THEN base \o <<": ", Member(json, "message")>>
             ELSE base
        ELSE IF text # "" THEN base \o <<": ", text>> ELSE base


NotFound(endpoint, text) ==
    Thrown("ApiError", 404,
           <<ResourceName(endpoint), " not found. ",
             IF text # "" THEN text ELSE "The requested resource does not exist.">>)

\* the success branch: response.json() for a JSON content type, which throws
\* a SyntaxError on a body that does not parse, else response.text()
Success(r) ==
    IF IsJsonType(r.ctype)
    THEN IF JSONparse(r.body).valid
         THEN Returned("json", JsonValue(JSONparse(r.body)))
         ELSE Thrown("SyntaxError", 0, <<"Unexpected token">>)
    ELSE Returned("text", TextValue(r.body))

\* mutant of HandleResponse: no branch for status 401
HandleResponseNo401(endpoint, r) ==
    IF r.status = 404 THEN NotFound(endpoint, r.body)
    ELSE IF ~Ok(r.status)
    THEN Thrown("ApiError", r.status, ErrorMessage(r.status, r.body))
    ELSE Success(r)

\* mutant of HandleResponse: a success body is always returned as text
HandleResponseTextOnly(endpoint, r) ==
    IF r.status = 401 THEN Thrown("ApiError", 401, <<SessionExpiredMessage>>)
    ELSE IF r.status = 404 THEN NotFound(endpoint, r.body)
    ELSE IF ~Ok(r.status)
    THEN Thrown("ApiError", r.status, ErrorMessage(r.status, r.body))
    ELSE Returned("text", TextValue(r.body))

\* the body of the try block of makeRequest after fetch has resolved
HandleResponse(endpoint, r) ==
    IF r.status = 401 THEN Thrown("ApiError", 401, <<SessionExpiredMessage>>)
    ELSE IF r.status = 404 THEN NotFound(endpoint, r.body)
    ELSE IF ~Ok(r.status)
    THEN Thrown("ApiError", r.status, ErrorMessage(r.status, r.body))
    ELSE Success(r)

ConnectionFailed ==
    Thrown("Error", 0,
           <<"Failed to connect to Quibo backend at ", BackendUrl,
             ". Please check your network connection and backend URL.">>)

\* mutant of CatchBlock: every error that is not an ApiError is reported as a
\* connection failure
CatchBlockWrapsAll(e) ==
    IF e.class = "ApiError" THEN e ELSE ConnectionFailed

\* mutant of CatchBlock: every error is thrown on as it is
CatchBlockRethrows(e) == e

\* the catch block of makeRequest
CatchBlock(e) ==
    IF e.class = "ApiError" THEN e
    ELSE IF e.class = "TypeError" /\ \E i \in DOMAIN e.msg : e.msg[i] = "fetch"
    THEN ConnectionFailed
    ELSE e

\* what makeRequest ends with once fetch has settled with r
Settle(endpoint, r) ==
    IF r.kind = "failure"
    THEN CatchBlock(Thrown("TypeError", 0, <<"fetch", " failed">>))
    ELSE LET o == HandleResponse(endpoint, r)
         IN  IF o.kind = "thrown" THEN CatchBlock(o) ELSE o

\* the variables of the login flow, which the tool calls below leave alone
\* but for the store
loginVars == <<now, ticks, ret, pc, err, busy, probe, port, listener, conn, future,
               cb, timer, deadline, browser, loc, exchanged, denied, probeSock,
               replaced, peer>>

\* makeRequest(endpoint, options) up to its await: the token is read and the
\* one fetch is issued, or the error of getAccessToken() goes through the
\* catch block
makeRequest(endpoint, headers) ==
    /\ call' = [endpoint |-> endpoint, headers |-> headers]
    /\ rsp' = NoRsp
    /\ LET t == getAccessToken
       IN  IF t.ok
           THEN /\ apc' = "fetching"
                /\ sent' = <<[url |-> <<BackendUrl>> \o endpoint,
                              headers |-> RequestHeaders(t.token, headers)]>>
                /\ out' = NoOut
           ELSE /\ apc' = "thrown"
                /\ sent' = <<>>
                /\ out' = CatchBlock(Thrown("Error", 0, <<TokenMessage(t.error)>>))

\* a tool call that reaches the backend: its handler calls an operation of
\* api.ts, which calls makeRequest
CallApiTool ==
    /\ tool = "none"
    /\ alive
    /\ tool' = "api"
    /\ \E endpoint \in Endpoints, headers \in HeaderSets : makeRequest(endpoint, headers)
    /\ reply' = NoReply
    /\ UNCHANGED <<store, alive>>
    /\ UNCHANGED loginVars

\* mutant of FetchSettled: a 401 response deletes the stored session
FetchSettledClearsOn401(r) ==
    /\ apc = "fetching"
    /\ rsp' = r
    /\ out' = Settle(call.endpoint, r)
    /\ apc' = IF out'.kind = "thrown" THEN "thrown" ELSE "returned"
    /\ store' = IF r.status = 401 THEN NoAuth ELSE store
    /\ UNCHANGED <<tool, call, sent, reply, alive>>
    /\ UNCHANGED loginVars

\* mutant of FetchSettled: a transport failure is answered with another fetch
FetchSettledRetries(r) ==
    /\ apc = "fetching"
    /\ IF r.kind = "failure"
       THEN /\ sent' = Append(sent, sent[1])
            /\ UNCHANGED <<rsp, out, apc>>
       ELSE /\ rsp' = r
            /\ out' = Settle(call.endpoint, r)
            /\ apc' = IF out'.kind = "thrown" THEN "thrown" ELSE "returned"
            /\ sent' = sent
    /\ UNCHANGED <<store, tool, call, reply, alive>>
    /\ UNCHANGED loginVars

\* fetch settles and makeRequest runs to its end
FetchSettled(r) ==
    /\ apc = "fetching"
    /\ rsp' = r
    /\ out' = Settle(call.endpoint, r)
    /\ apc' = IF out'.kind = "thrown" THEN "thrown" ELSE "returned"
    /\ UNCHANGED <<store, tool, call, sent, reply, alive>>
    /\ UNCHANGED loginVars

Fetch == \E r \in Responses \cup {Failure} : FetchSettled(r)

\* ---------------------------------------------------------- tool handlers
DropCall ==
    /\ call' = NoCall
    /\ apc' = "idle"
    /\ sent' = <<>>
    /\ rsp' = NoRsp
    /\ out' = NoOut

\* mutant of ToolReturn: the catch block ends the process, as the catch of
\* server.run() does
ToolReturnExits ==
    /\ tool = "api"
    /\ apc \in {"returned", "thrown"}
    /\ IF out.kind = "thrown"
       THEN alive' = FALSE /\ reply' = reply
       ELSE alive' = alive /\ reply' = [isError |-> FALSE, text |-> <<"success">>]
    /\ tool' = "none"
    /\ DropCall
    /\ UNCHANGED store
    /\ UNCHANGED loginVars

\* the handler of an API tool ends, and the locals of makeRequest with it: the
\* value is reported, or the catch block of the handler builds the error
\* response
ToolReturn ==
    /\ tool = "api"
    /\ apc \in {"returned", "thrown"}
    /\ reply' = IF out.kind = "thrown"
                THEN [isError |-> TRUE,
                      text |-> <<"Failed to get project status: ">> \o out.msg]
                ELSE [isError |-> FALSE, text |-> <<"success">>]
    /\ tool' = "none"
    /\ DropCall
    /\ UNCHANGED <<store, alive>>
    /\ UNCHANGED loginVars

\* the errors authenticate() throws, and the session a login stores
AuthErrors ==
    {"PortError", "AuthUrlMissing", "BindError", "CallbackTimeout",
     "OAuthProviderError", "MissingTokens", "SessionExchangeFailed"}

NewSession ==
    [present |-> TRUE, accessToken |-> <<"b">>, refreshToken |-> <<"r">>,
     expiresAt |-> Num(now + 3600), email |-> <<"u">>, id |-> <<"i">>]

\* handleAuthenticate: authenticate() as a whole, ending with a stored
\* session or with one of its errors, which the catch block reports
handleAuthenticate(outcome) ==
    /\ tool = "none"
    /\ alive
    /\ err' = IF outcome = "ok" THEN NoErr ELSE Error(outcome, Undefined)
    /\ IF outcome = "ok"
       THEN /\ store' = NewSession
            /\ reply' = [isError |-> FALSE,
                         text |-> <<"Authentication successful. You are now signed in to Quibo.">>]
       ELSE /\ store' = store
            /\ reply' = [isError |-> TRUE, text |-> <<"Authentication failed: ", outcome>>]
    /\ UNCHANGED <<tool, call, apc, sent, rsp, out, alive>>
    /\ UNCHANGED <<now, ticks, ret, pc, busy, probe, port, listener, conn, future,
                   cb, timer, deadline, browser, loc, exchanged, denied, probeSock,
                   replaced, peer>>

CallAuthenticate == \E outcome \in AuthErrors \cup {"ok"} : handleAuthenticate(outcome)

\* handleCheckAuth: checkAuth() does not throw
handleCheckAuth ==
    /\ tool = "none"
    /\ alive
    /\ reply' = [isError |-> FALSE,
                 text |-> IF checkAuth.authenticated
                          THEN <<"Authenticated as ">> \o checkAuth.email
                          ELSE <<"Not authenticated. Please run the authenticate tool.">>]
    /\ UNCHANGED <<store, tool, call, apc, sent, rsp, out, alive>>
    /\ UNCHANGED loginVars

\* the sessions the server can find stored when it is started at time 10: none,
\* one that expires at this very second, and a live one
ApiSessions ==
    {NoAuth,
     [present |-> TRUE, accessToken |-> <<"a">>, refreshToken |-> <<"r">>,
      expiresAt |-> Num(10), email |-> <<"u">>, id |-> <<"i">>],
     [present |-> TRUE, accessToken |-> <<"a">>, refreshToken |-> <<"r">>,
      expiresAt |-> Num(20), email |-> <<"u">>, id |-> <<"i">>]}

ApiInit ==
    /\ store \in ApiSessions
    /\ now = 10
    /\ ticks = 0
    /\ pc = "idle"
    /\ err = NoErr
    /\ busy = {}
    /\ probe = 0
    /\ port = 0
    /\ listener = "none"
    /\ conn = FALSE
    /\ future = "none"
    /\ cb = NoParams
    /\ timer = "none"
    /\ deadline = 0
    /\ browser = "none"
    /\ loc = NoLoc
    /\ exchanged = FALSE
    /\ ret = NoRet
    /\ denied = {}
    /\ probeSock = FALSE
    /\ replaced = FALSE
    /\ peer = "none"
    /\ ApiIdle
    /\ ExtIdle

ApiNext ==
    \/ CallApiTool /\ UNCHANGED <<extVars, callVars, gen>>
    \/ Fetch /\ UNCHANGED <<extVars, callVars, gen>>
    \/ ToolReturn /\ UNCHANGED <<extVars, callVars, gen>>
    \/ CallAuthenticate /\ UNCHANGED <<extVars, callVars, gen>>
    \/ handleCheckAuth /\ UNCHANGED <<extVars, callVars, gen>>

ApiSpec == ApiInit /\ [][ApiNext]_vars

\* ------------------------------------------- the authenticate tool call
StartPort == 54321     \* findAvailablePort(startPort: number = 54321)
PortNumber(p) == StartPort + p

\* `http://localhost:${port}/callback`
RedirectUrl(p) == <<"http://localhost:", ToString(PortNumber(p)), "/callback">>

\* data.url: the sign-in page of the provider, made for the redirect URL; the
\* program passes it on as it is and does not read its parameters
AuthorizeUrl(redirectTo) ==
    IF redirectTo = NoUrl THEN NoUrl ELSE <<"https://supabase/auth/v1/authorize?...">>

\* the redirect_uri argument of the tool: absent, or a URI of the caller
AuthArgs ==
    {NoArgs,
     [redirect_uri |-> <<"http://localhost:", "9000", "/cb">>]}

\* the locals of authenticate() end with the call; what the handler was
\* given and the URL that was printed stay on record until the next call
DropArgs ==
    /\ redirectUrl' = NoUrl
    /\ bound' = {}
    /\ UNCHANGED <<args, authUrl>>

restApi == <<call, apc, sent, rsp, out, alive>>

\* the CallToolRequest handler dispatches an authenticate call:
\* handleAuthenticate(args) calls authenticate() with no argument
StartAuthenticate(a) ==
    /\ tool = "none"
    /\ alive
    /\ AuthStart
    /\ tool' = "authenticate"
    /\ args' = a
    /\ redirectUrl' = NoUrl
    /\ authUrl' = NoUrl
    /\ bound' = {}
    /\ reply' = NoReply
    /\ UNCHANGED restApi

CallAuthenticateTool == \E a \in AuthArgs : StartAuthenticate(a)

\* findAvailablePort() resolves and signInWithOAuth is called with redirectTo
RequestAuthUrl ==
    /\ ProbeClosed
    /\ redirectUrl' = RedirectUrl(probe)
    /\ UNCHANGED <<args, authUrl, bound>>
    /\ UNCHANGED apiVars

AuthUrlArrives ==
    /\ AuthUrlReturned
    /\ authUrl' = IF pc' = "waiting" THEN AuthorizeUrl(redirectUrl) ELSE authUrl
    /\ UNCHANGED <<args, redirectUrl, bound>>
    /\ UNCHANGED apiVars

\* server.listen(port, ...) of the callback server succeeds
CallbackServerBound ==
    /\ ListenerBound
    /\ bound' = {PortNumber(port)}
    /\ UNCHANGED <<args, redirectUrl, authUrl>>
    /\ UNCHANGED apiVars

\* mutant of AuthenticateReturns: the response carries the authorization URL
AuthenticateReturnsUrl ==
    /\ tool = "authenticate"
    /\ pc \in {"done", "failed"}
    /\ reply' = IF pc = "done"
                THEN [isError |-> FALSE,
                      text |-> <<"Authentication successful. You are now signed in to Quibo.">>
                               \o authUrl]
                ELSE [isError |-> TRUE, text |-> <<"Authentication failed: ", err.kind>>]
    /\ tool' = "none"
    /\ DropArgs
    /\ UNCHANGED restApi
    /\ UNCHANGED <<store, now, ticks, ret>>
    /\ UNCHANGED flow

\* authenticate() has ended and handleAuthenticate builds the response
AuthenticateReturns ==
    /\ tool = "authenticate"
    /\ pc \in {"done", "failed"}
    /\ reply' = IF pc = "done"
                THEN [isError |-> FALSE,
                      text |-> <<"Authentication successful. You are now signed in to Quibo.">>]
                ELSE [isError |-> TRUE, text |-> <<"Authentication failed: ", err.kind>>]
    /\ tool' = "none"
    /\ DropArgs
    /\ UNCHANGED restApi
    /\ UNCHANGED <<store, now, ticks, ret>>
    /\ UNCHANGED flow

LoginNext ==
    \/ CallAuthenticateTool /\ UNCHANGED <<callVars, gen>>
    \/ findAvailablePort /\ UNCHANGED outerVars
    \/ RequestAuthUrl /\ UNCHANGED <<callVars, gen>>
    \/ TakePort /\ UNCHANGED outerVars
    \/ AuthUrlArrives /\ UNCHANGED <<callVars, gen>>
    \/ CallbackServerBound /\ UNCHANGED <<callVars, gen>>
    \/ ListenerError /\ UNCHANGED outerVars
    \/ Request /\ UNCHANGED outerVars
    \/ TimeoutFire /\ UNCHANGED outerVars
    \/ BrowserLaunch /\ UNCHANGED outerVars
    \/ Joined /\ UNCHANGED outerVars
    \/ SessionExchange /\ UNCHANGED outerVars
    \/ AuthenticateReturns /\ UNCHANGED <<callVars, gen>>
    \/ Clock /\ UNCHANGED outerVars

LoginSpec == Init /\ [][LoginNext]_vars

\* ------------------------------------------- a stored session as time passes
\* the callback request has delivered a token pair and authenticate() is about
\* to go on: the state HttpRequest leaves once the browser promise is settled
ExpiryInit ==
    /\ store = NoAuth
    /\ now = 0
    /\ ticks = 0
    /\ pc = "waiting"
    /\ err = NoErr
    /\ busy = {}
    /\ probe = 0
    /\ port = 0
    /\ listener = "closed"
    /\ conn = FALSE
    /\ future = "resolved"
    /\ cb \in TokenResults
    /\ timer = "cleared"
    /\ deadline = CallbackTimeoutSec
    /\ browser = "opened"
    /\ loc = NoLoc
    /\ exchanged = FALSE
    /\ ret = NoRet
    /\ denied = {}
    /\ probeSock = FALSE
    /\ replaced = FALSE
    /\ peer = "none"
    /\ ApiIdle
    /\ ExtIdle

\* time passes: MaxTicks advances are followed from any state, and the clock
\* is followed further for as long as a stored session has its expiry time
\* ahead
Elapse(d) ==
    /\ \/ ticks < MaxTicks
       \/ store.present /\ store.expiresAt.k = "num" /\ now < store.expiresAt.v
    /\ now' = now + d
    /\ ticks' = IF ticks < MaxTicks THEN ticks + 1 ELSE ticks
    /\ ret' = NoRet
    /\ UNCHANGED store
    /\ UNCHANGED flow

TimePasses == \E d \in TickSteps : Elapse(d)

ExpiryNext ==
    \/ Joined /\ UNCHANGED outerVars
    \/ SessionExchange /\ UNCHANGED outerVars
    \/ CheckAuthCall /\ UNCHANGED outerVars
    \/ GetAccessTokenCall /\ UNCHANGED outerVars
    \/ clearAuth /\ UNCHANGED outerVars
    \/ TimePasses /\ UNCHANGED outerVars

\* Date.now() goes on advancing whatever the program does
ExpirySpec == ExpiryInit /\ [][ExpiryNext]_vars /\ WF_vars(TimePasses /\ UNCHANGED outerVars)

\* ------------------------------------- two authenticate() calls that overlap
\* the tool handlers are async functions: a second authenticate call can start
\* while the first is suspended at an await.  Each call has its own locals;
\* both have received their callback and await supabase.auth.setSession
NoBuilt == [present |-> FALSE]

CallLocals ==
    {[accessToken |-> p.access_token,
      refreshToken |-> p.refresh_token,
      expiresIn |-> parseInt(Or(p.expires_in, DefaultExpiresIn))] : p \in TokenResults}

\* sessionData.user of a call: the provider answers with the user of the
\* tokens it was given
UserOf(i) == [email |-> <<"u", ToString(i)>>, id |-> <<"i", ToString(i)>>]

\* const auth: StoredAuth = {...} from the locals of the call
BuildAuth(l, user) ==
    [present |-> TRUE,
     accessToken |-> l.accessToken,
     refreshToken |-> l.refreshToken,
     expiresAt |-> JsAdd(Num(now), l.expiresIn),
     email |-> Or(user.email, <<>>),
     id |-> user.id]

OverlapInit ==
    /\ store = NoAuth
    /\ now = 0
    /\ ticks = 0
    /\ pc = "idle"
    /\ err = NoErr
    /\ busy = {}
    /\ probe = 0
    /\ port = 0
    /\ listener = "none"
    /\ conn = FALSE
    /\ future = "none"
    /\ cb = NoParams
    /\ timer = "none"
    /\ deadline = 0
    /\ browser = "none"
    /\ loc = NoLoc
    /\ exchanged = FALSE
    /\ ret = NoRet
    /\ denied = {}
    /\ probeSock = FALSE
    /\ replaced = FALSE
    /\ peer = "none"
    /\ ApiIdle
    /\ args = NoArgs
    /\ redirectUrl = NoUrl
    /\ authUrl = NoUrl
    /\ bound = {}
    /\ \E l1 \in CallLocals, l2 \in CallLocals :
          /\ l1.accessToken # l2.accessToken
          /\ inv = <<[pc |-> "exchange", loc |-> l1, auth |-> NoBuilt],
                     [pc |-> "exchange", loc |-> l2, auth |-> NoBuilt]>>
    /\ last = 0
    /\ gen = NoGen

\* mutant of SetSessionReturned: the session is written field by field over
\* what is stored, and the identity only when none is stored yet
SetSessionReturnedMerges(i, r) ==
    /\ inv[i].pc = "exchange"
    /\ IF r = "ok"
       THEN LET auth == BuildAuth(inv[i].loc, UserOf(i))
            IN  /\ setAuth(IF store.present
                           THEN [auth EXCEPT !.email = store.email, !.id = store.id]
                           ELSE auth)
                /\ inv' = [inv EXCEPT ![i] = [pc |-> "done", loc |-> @.loc, auth |-> auth]]
                /\ last' = i
       ELSE /\ inv' = [inv EXCEPT ![i] = [pc |-> "failed", loc |-> @.loc, auth |-> NoBuilt]]
            /\ UNCHANGED <<store, last>>
    /\ UNCHANGED <<now, ticks, ret>>
    /\ UNCHANGED flow

\* supabase.auth.setSession returns to call i: with a user the call builds
\* auth and saves it before it yields again, else it throws
SetSessionReturned(i, r) ==
    /\ inv[i].pc = "exchange"
    /\ IF r = "ok"
       THEN LET auth == BuildAuth(inv[i].loc, UserOf(i))
            IN  /\ setAuth(auth)
                /\ inv' = [inv EXCEPT ![i] = [pc |-> "done", loc |-> @.loc, auth |-> auth]]
                /\ last' = i
       ELSE /\ inv' = [inv EXCEPT ![i] = [pc |-> "failed", loc |-> @.loc, auth |-> NoBuilt]]
            /\ UNCHANGED <<store, last>>
    /\ UNCHANGED <<now, ticks, ret>>
    /\ UNCHANGED flow

OverlapExchange == \E i \in DOMAIN inv, r \in {"ok", "error"} : SetSessionReturned(i, r)

OverlapNext ==
    \/ OverlapExchange /\ UNCHANGED <<apiVars, extVars, gen>>
    \/ CheckAuthCall /\ UNCHANGED outerVars
    \/ Clock /\ UNCHANGED outerVars

OverlapSpec == OverlapInit /\ [][OverlapNext]_vars

\* ------------------------------------------------ the generate_content tool
MaxSections == 2       \* most sections the project status reports

Operations == {"outline", "sections", "compile", "full", "publish"}

\* status.outline.sections[i].title
Title(i) == <<"t", ToString(i)>>

\* the specific_sections argument: absent or empty, or titles, of which one is
\* in no outline
SpecificSections == SUBSET ({Title(i) : i \in 0..(MaxSections - 1)} \cup {<<"other">>})

\* the test of the loop body: no filter, or the title is asked for
Selected(g, i) == g.specific = {} \/ Title(i) \in g.specific

\* the index of the next pass of the loop from i on that is not skipped, or
\* sectionCount
RECURSIVE NextSelected(_, _)
NextSelected(g, i) ==
    IF i >= g.count THEN g.count
    ELSE IF Selected(g, i) THEN i
    ELSE NextSelected(g, i + 1)

genFrame == <<store, now, ticks, ret, call, apc, sent, rsp, out, alive>>

\* the handler goes on to its next await
Continue(g, r) ==
    /\ gen' = g
    /\ reply' = r
    /\ tool' = "generate_content"

\* the handler returns: the result, or the error response of its catch block
Finish(g, ok, text) ==
    /\ gen' = [g EXCEPT !.pc = IF ok THEN "done" ELSE "failed"]
    /\ reply' = [isError |-> ~ok,
                 text |-> IF ok THEN text ELSE <<"Failed to generate content: ">> \o text]
    /\ tool' = "none"

BackendError == <<"API request failed">>

\* the awaited call resolved: every call made so far has returned a result
Resolved(g) == [g EXCEPT !.ok = Len(g.log)]

\* if (operation === 'compile' || operation === 'full'): getProjectStatus
ToCompile(g) ==
    Continue([g EXCEPT !.pc = "status2", !.log = Append(@, <<"project_status">>)], reply)

\* the for loop from pass i on: the next section that is not skipped is
\* requested, or the loop is left
Loop(g, i) ==
    LET j == NextSelected(g, i)
    IN  IF j < g.count
        THEN Continue([g EXCEPT !.pc = "section", !.i = j,
                                !.log = Append(@, <<"generate_section", ToString(j)>>)], reply)
        ELSE IF g.op = "sections"
        THEN Finish(g, TRUE, <<"sections">>)
        ELSE ToCompile(g)

\* handleGenerateContent(args) up to its first await
StartGenerate(op, specific) ==
    /\ tool = "none"
    /\ alive
    /\ LET g == [NoGen EXCEPT !.op = op, !.specific = specific]
       IN  IF op \in {"outline", "full"}
           THEN Continue([g EXCEPT !.pc = "outline",
                                   !.log = <<<<"generate_outline">>>>], NoReply)
           ELSE IF op = "sections"
           THEN Continue([g EXCEPT !.pc = "status",
                                   !.log = <<<<"project_status">>>>], NoReply)
           ELSE IF op = "compile"
           THEN /\ gen' = [g EXCEPT !.pc = "status2", !.log = <<<<"project_status">>>>]
                /\ reply' = NoReply
                /\ tool' = "generate_content"
           ELSE Finish(g, FALSE, <<"Unknown operation: ", op>>)
    /\ UNCHANGED genFrame
    /\ UNCHANGED <<flow, extVars, callVars>>

CallGenerateContent ==
    \E op \in Operations, specific \in SpecificSections : StartGenerate(op, specific)

\* generateOutline settles
OutlineReturned(ok) ==
    /\ tool = "generate_content"
    /\ gen.pc = "outline"
    /\ IF ~ok THEN Finish(gen, FALSE, BackendError)
       ELSE IF gen.op = "outline" THEN Finish(Resolved(gen), TRUE, <<"outline">>)
       ELSE Continue([Resolved(gen) EXCEPT !.pc = "status",
                                           !.log = Append(@, <<"project_status">>)], reply)
    /\ UNCHANGED genFrame
    /\ UNCHANGED <<flow, extVars, callVars>>

\* getProjectStatus settles before the loop: n = status.outline.sections.length
StatusReturned(ok, n) ==
    /\ tool = "generate_content"
    /\ gen.pc = "status"
    /\ IF ~ok THEN Finish(gen, FALSE, BackendError)
       ELSE IF n = 0
       THEN Finish(gen, FALSE, <<"No sections found in outline. Generate outline first.">>)
       ELSE Loop([Resolved(gen) EXCEPT !.count = n], 0)
    /\ UNCHANGED genFrame
    /\ UNCHANGED <<flow, extVars, callVars>>

\* mutant of SectionReturned: a section that fails is left out and the loop
\* goes on
SectionReturnedSwallows(ok) ==
    /\ tool = "generate_content"
    /\ gen.pc = "section"
    /\ Loop(IF ok THEN Resolved(gen) ELSE gen, gen.i + 1)
    /\ UNCHANGED genFrame
    /\ UNCHANGED <<flow, extVars, callVars>>

\* generateSection(project_name, i) settles
SectionReturned(ok) ==
    /\ tool = "generate_content"
    /\ gen.pc = "section"
    /\ IF ~ok THEN Finish(gen, FALSE, BackendError)
       ELSE Loop(Resolved(gen), gen.i + 1)
    /\ UNCHANGED genFrame
    /\ UNCHANGED <<flow, extVars, callVars>>

\* getProjectStatus settles before the compile step
CompileStatusReturned(ok) ==
    /\ tool = "generate_content"
    /\ gen.pc = "status2"
    /\ IF ~ok THEN Finish(gen, FALSE, BackendError)
       ELSE Continue([Resolved(gen) EXCEPT !.pc = "compile",
                                           !.log = Append(@, <<"compile_draft">>)], reply)
    /\ UNCHANGED genFrame
    /\ UNCHANGED <<flow, extVars, callVars>>

\* compileDraft settles
CompileReturned(ok) ==
    /\ tool = "generate_content"
    /\ gen.pc = "compile"
    /\ IF ~ok THEN Finish(gen, FALSE, BackendError)
       ELSE Finish(Resolved(gen), TRUE, <<gen.op>>)
    /\ UNCHANGED genFrame
    /\ UNCHANGED <<flow, extVars, callVars>>

GenNext ==
    \/ CallGenerateContent
    \/ \E ok \in BOOLEAN : OutlineReturned(ok)
    \/ \E ok \in BOOLEAN, n \in 0..MaxSections : StatusReturned(ok, n)
    \/ \E ok \in BOOLEAN : SectionReturned(ok)
    \/ \E ok \in BOOLEAN : CompileStatusReturned(ok)
    \/ \E ok \in BOOLEAN : CompileReturned(ok)

GenSpec == Init /\ [][GenNext]_vars

\* ------------------------------------------------------------------ claims

\* the comparisons of the claims: x > n and x <= n for a stored expiresAt x and an
\* integer n, as JavaScript evaluates them (null converts to 0)
JsGt(x, n) == CASE x.k = "num" -> x.v > n
                [] x.k = "null" -> 0 > n
                [] OTHER -> FALSE

JsLe(x, n) == CASE x.k = "num" -> x.v <= n
                [] x.k = "null" -> 0 <= n
                [] OTHER -> FALSE

\* C1: the store is written only by the final persist step of authenticate()
\* (and cleared only by logout): every step that makes a run fail, and every
\* step of a run before the persist step, leaves the stored session exactly as
\* it was, so a failed re-login keeps the session stored before it.
C1_FailedLoginLeavesStore ==
    [][/\ (store' # store =>
              \/ pc = "exchange" /\ pc' = "done" /\ store'.present
              \/ store' = NoAuth /\ flow' = flow)
       /\ (pc' = "failed" /\ pc # "failed" => store' = store)]_vars

\* C1 witness: a re-login failed at its last step before the persist step and
\* the session of the earlier login is still stored
C1_Witness ==
    /\ pc = "failed"
    /\ err.kind = "SessionExchangeFailed"
    /\ store.present

\* C2: with a session stored and expiresAt <= now, a checkAuth() call returns
\* authenticated = false and a getAccessToken() call fails with the
\* token-expired error.
C2_ExpiredSessionRejected ==
    store.present /\ JsLe(store.expiresAt, now) =>
        /\ ret.op = "checkAuth" => ret.val.authenticated = FALSE
        /\ ret.op = "getAccessToken" =>
               ~ret.val.ok /\ ret.val.error = "TokenExpired"

\* C2 witness: getAccessToken() was called at the very second of expiry
C2_Witness ==
    /\ store.present
    /\ store.expiresAt = Num(now)
    /\ now > 0
    /\ ret.op = "getAccessToken"
    /\ ret.val.error = "TokenExpired"

\* C3: with a session stored and expiresAt > now, a checkAuth() call returns
\* authenticated = true and a getAccessToken() call returns the stored
\* accessToken unchanged.
C3_LiveSessionAccepted ==
    store.present /\ JsGt(store.expiresAt, now) =>
        /\ ret.op = "checkAuth" => ret.val.authenticated = TRUE
        /\ ret.op = "getAccessToken" =>
               ret.val.ok /\ ret.val.token = store.accessToken

\* C3 witness: getAccessToken() returned the token of a live session
C3_Witness ==
    /\ store.present
    /\ JsGt(store.expiresAt, now)
    /\ ret.op = "getAccessToken"
    /\ ret.val.ok
    /\ ret.val.token = <<"b">>

\* C4: every session that authenticate() persists has expiresAt strictly
\* greater than the time of the persist step, whatever expires_in the callback
\* carried.
C4_ExpiresAfterCreation ==
    [][pc = "exchange" /\ pc' = "done" => JsGt(store'.expiresAt, now)]_vars

\* C5: when the timer fires the listener is closed and the pending promise is
\* rejected with the callback-timeout error, which ends authenticate(); from
\* then on no request changes the outcome of the promise or the store.
C5_TimeoutRejectsAndStays ==
    /\ [](timer = "fired" =>
             /\ listener = "closed"
             /\ future = "rejected"
             /\ pc = "failed"
             /\ err.kind = "CallbackTimeout")
    /\ [][timer = "armed" /\ timer' = "fired" => store' = store]_vars
    /\ [][timer = "fired" /\ timer' = "fired" /\ pc' = pc =>
             future' = future /\ (store' = store \/ store' = NoAuth)]_vars

\* C5 witness: the timeout has fired and a connection to the closed listener
\* is still open, so a late callback request can reach the handler
C5_Witness ==
    /\ timer = "fired"
    /\ future = "rejected"
    /\ listener = "closed"
    /\ conn
    /\ now = CallbackTimeoutSec

\* C6: once the callback promise has resolved, authenticate() can go on to its
\* error and token checks, whatever the state of the browser launch.
C6_BrowserDoesNotBlock ==
    pc = "waiting" /\ future = "resolved" => ENABLED Joined

\* C7: a failed browser launch never ends authenticate(): the step in which
\* the launch fails leaves the call where it was, and no call fails with a
\* browser-launch error.
C7_BrowserFailureNotFatal ==
    /\ [](err.kind # "BrowserLaunchFailed")
    /\ [][browser = "launching" /\ browser' = "failed" =>
             pc' = pc /\ err' = err /\ store' = store]_vars

\* C7 witness: the login went through although the browser launch failed
C7_Witness ==
    /\ pc = "done"
    /\ browser = "failed"
    /\ store.present

\* C8 as stated: a call that has started its listener is over no later than
\* one timeout period after the listener start.
C8_LoginBoundedByTimeout ==
    pc \in {"waiting", "exchange"} => now <= deadline

\* C8 amended: the wait for the callback is bounded by one timeout period from
\* the listener start: while the callback promise is pending the timer is
\* armed and not overdue, and the timer that fired has closed the listener and
\* rejected the call.  The steps after a callback request was received (the
\* join with the browser launch, the session exchange) are not bounded by it.
C8_CallbackWaitBounded ==
    /\ future = "pending" =>
           /\ pc = "waiting"
           /\ timer = "armed"
           /\ deadline <= now + CallbackTimeoutSec
           /\ now <= deadline
    /\ timer = "fired" => listener = "closed" /\ pc = "failed"

\* C8 witness: the wait has lasted the whole timeout period
C8_Witness ==
    /\ future = "pending"
    /\ timer = "armed"
    /\ now = deadline

\* C9: when the resolved callback carries an error, authenticate() fails with
\* the provider error carrying error_description, or error when there is no
\* description, whether or not tokens are present; the session exchange is not
\* called and nothing is persisted.
C9_ProviderErrorFirst ==
    [][pc = "waiting" /\ pc' # "waiting" /\ future = "resolved" /\ Truthy(cb.error) =>
          /\ pc' = "failed"
          /\ err' = Error("OAuthProviderError", Or(cb.error_description, cb.error))
          /\ ~exchanged'
          /\ store' = store]_vars

\* C9 witness: a call failed with the provider error, reported by its error
\* code because the callback carried no description
C9_Witness ==
    /\ pc = "failed"
    /\ err = Error("OAuthProviderError", <<"e">>)
    /\ ~exchanged

\* C10: when the resolved callback carries no error and lacks access_token or
\* refresh_token, authenticate() fails with the missing-tokens error, the
\* session exchange is not called and nothing is persisted.
C10_MissingTokensFail ==
    [][/\ pc = "waiting" /\ pc' # "waiting" /\ future = "resolved"
       /\ ~Truthy(cb.error)
       /\ ~Truthy(cb.access_token) \/ ~Truthy(cb.refresh_token)
       => /\ pc' = "failed"
          /\ err'.kind = "MissingTokens"
          /\ ~exchanged'
          /\ store' = store]_vars

\* C10 witness: a call failed with the missing-tokens error and the session
\* exchange was not called
C10_Witness ==
    /\ pc = "failed"
    /\ err.kind = "MissingTokens"
    /\ ~exchanged

\* the status checkAuth() returns when no session is stored
NoSessionStatus ==
    [authenticated |-> FALSE, isExpired |-> TRUE,
     email |-> Undefined, expiresAt |-> Null, hasSession |-> FALSE]

\* the fields of a stored session
SessionFields ==
    {"present", "accessToken", "refreshToken", "expiresAt", "email", "id"}

\* C11: the session persisted by a successful login holds the tokens as the
\* callback delivered them and expiresAt = time of the persist step +
\* expiresIn, and a checkAuth() evaluated right after the persist step returns
\* authenticated = true.
C11_PersistedSessionLive ==
    [][pc = "exchange" /\ pc' = "done" =>
          /\ store'.present
          /\ store'.accessToken = loc.accessToken
          /\ store'.refreshToken = loc.refreshToken
          /\ store'.expiresAt = JsAdd(Num(now), loc.expiresIn)
          /\ checkAuth'.authenticated]_vars

C13_LogoutRemovesSession ==
    /\ [](ENABLED clearAuth)
    /\ [](ret.op = "checkAuth" /\ ~store.present => ret.val = NoSessionStatus)
    /\ [][clearAuth => store' = NoAuth /\ checkAuth' = NoSessionStatus]_vars

\* C13 witness: checkAuth() was called after the session that this login had
\* persisted was removed
C13_Witness ==
    /\ pc = "done"
    /\ ~store.present
    /\ ret.op = "checkAuth"
    /\ ret.val = NoSessionStatus

\* C14: getAccessToken() fails with the not-authenticated error exactly when
\* no session is stored, and with the token-expired error exactly when a
\* session is stored and now >= expiresAt.
C14_AccessTokenErrors ==
    ret.op = "getAccessToken" =>
        /\ ret.val.error = "NotAuthenticated" <=> ~store.present
        /\ ret.val.error = "TokenExpired" <=>
               (store.present /\ JsLe(store.expiresAt, now))

\* C14 witness: getAccessToken() reported no session after a logout
C14_Witness ==
    /\ pc = "done"
    /\ ~store.present
    /\ ret.op = "getAccessToken"
    /\ ret.val.error = "NotAuthenticated"

\* C15: a checkAuth() or getAccessToken() call leaves the stored session as it
\* was, also when it finds it expired; an expired session stays stored and
\* expired until the persist step of a login or a logout changes the store.
C15_ReadsLeaveStore ==
    /\ [][ret'.op # "none" => store' = store]_vars
    /\ [][store.present /\ JsLe(store.expiresAt, now) =>
             \/ store' = store /\ JsLe(store'.expiresAt, now')
             \/ pc = "exchange" /\ pc' = "done"
             \/ clearAuth]_vars

\* C15 witness: checkAuth() found the session expired and the session is
\* still stored
C15_Witness ==
    /\ store.present
    /\ ret.op = "checkAuth"
    /\ ret.val.isExpired
    /\ ret.val.hasSession
    /\ store.accessToken = <<"a">>

\* the first port from the start port on that no other process holds
FirstFree ==
    CHOOSE q \in 0..(MaxPort + 1) :
        q \notin busy /\ \A r \in 0..(q - 1) : r \in busy

\* C16: with ports P .. P+N-1 held by other processes and P+N free,
\* findAvailablePort(P) returns P+N (ports are counted from the start port),
\* and its probe server holds a port only until its close callback: none is
\* bound once findAvailablePort has returned.
C16_FirstFreePort ==
    /\ [](probeSock => pc = "releasing")
    /\ [][pc = "releasing" /\ pc' # "releasing" =>
             /\ pc' = "authurl"
             /\ port' = FirstFree
             /\ \A r \in 0..(port' - 1) : r \in busy
             /\ ~probeSock']_vars

\* C16 witness: the start port was busy and findAvailablePort returned the
\* next one, with the probe server closed
C16_Witness ==
    /\ pc = "authurl"
    /\ port = 1
    /\ ~probeSock

\* C17: when the bind of the probed port fails with an error other than
\* EADDRINUSE, the next step of findAvailablePort fails authenticate() with
\* that error: no further port is probed, no listener, timer or callback
\* promise exists, no browser is launched and the store is unchanged.
C17_ProbeErrorStops ==
    /\ [](pc = "failed" /\ err.kind = "PortError" =>
             listener = "none" /\ future = "none" /\ timer = "none"
                 /\ browser = "none" /\ ~exchanged)
    /\ [][pc = "probing" /\ probe \in denied /\ (pc' # pc \/ probe' # probe) =>
             /\ pc' = "failed"
             /\ err'.kind = "PortError"
             /\ probe' = 0
             /\ store' = store]_vars

\* C17 witness: authenticate() failed on the probe of a port that refused
\* the bind
C17_Witness ==
    /\ pc = "failed"
    /\ err.kind = "PortError"
    /\ listener = "none"
    /\ browser = "none"

\* C18: when signInWithOAuth returns an error or no URL, authenticate() fails
\* with the authorization-URL error in that step, with no listener bound or
\* binding, no timer, no callback promise and no browser launch.
C18_AuthUrlErrorFirst ==
    /\ [](pc = "failed" /\ err.kind = "AuthUrlMissing" =>
             listener = "none" /\ future = "none" /\ timer = "none"
                 /\ browser = "none" /\ ~exchanged)
    /\ [][pc = "authurl" /\ pc' = "failed" =>
             err'.kind = "AuthUrlMissing" /\ store' = store]_vars

\* C18 witness: authenticate() failed for want of an authorization URL
C18_Witness ==
    /\ pc = "failed"
    /\ err.kind = "AuthUrlMissing"
    /\ listener = "none"
    /\ browser = "none"
    /\ port = 0

\* C19: a request for a path other than /callback is answered with status
\* 404 and changes nothing else: the listener stays as it was, the callback
\* promise stays unsettled, the timer keeps its state and its due time; and
\* while the listener is open and the promise pending, a callback request
\* fulfils the promise with its parameters.
C19_OtherPathIgnored ==
    /\ \A path \in Paths \ {"/callback"} : Status(path) = 404
    /\ [][\A path \in Paths \ {"/callback"} :
             HttpRequest(path, NoParams, conn') =>
                 (UNCHANGED <<listener, future, cb, timer, deadline, pc, err, store>>)]_vars
    /\ [](listener = "listening" /\ future = "pending" =>
             \A p \in TokenResults :
                 ENABLED (/\ HttpRequest("/callback", p, FALSE)
                          /\ future' = "resolved"
                          /\ cb' = p))

\* C19 witness: a request for another path was served on a connection that
\* is kept alive, and the listener, the promise and the timer are as before
C19_Witness ==
    /\ listener = "listening"
    /\ future = "pending"
    /\ timer = "armed"
    /\ conn

C21_LoopbackOnly ==
    peer # "external"

\* a call of makeRequest has run to its end and its locals are still there
Settled == tool = "api" /\ apc \in {"returned", "thrown"}

\* C22: when getAccessToken() fails inside makeRequest, the error it threw
\* reaches the caller as it is, its class and message unchanged, and no
\* request has been sent.
C22_TokenFailurePropagates ==
    [][(tool = "none" /\ tool' = "api" /\ ~getAccessToken.ok)
        => (/\ apc' = "thrown"
            /\ out' = Thrown("Error", 0, <<TokenMessage(getAccessToken.error)>>)
            /\ sent' = <<>>)]_vars

C22_Witness ==
    /\ Settled
    /\ rsp.kind = "none"
    /\ sent = <<>>
    /\ out.msg = <<TokenMessage("TokenExpired")>>

\* C23: a response with status 401 ends makeRequest with the session-expired
\* error of status 401, whatever the endpoint and the body are.
C23_Status401SessionExpired ==
    (Settled /\ rsp.kind = "response" /\ rsp.status = 401)
        => out = Thrown("ApiError", 401, <<SessionExpiredMessage>>)

C23_Witness ==
    /\ Settled
    /\ rsp.status = 401
    /\ rsp.body = "{\"detail\":\"boom\"}"
    /\ Includes(call.endpoint, "/projects/")
    /\ out.status = 401

\* C24: on status 404 the resource kind is the one of the first rule that
\* matches, in the order /projects/, /outline/, /section/, else Resource, and a
\* body that is not empty is part of the message.
C24_NotFoundKind ==
    (Settled /\ rsp.kind = "response" /\ rsp.status = 404)
        => /\ out.kind = "thrown"
           /\ out.class = "ApiError"
           /\ out.status = 404
           /\ out.msg[1] = (CASE Includes(call.endpoint, "/projects/") -> "Project"
                              [] ~Includes(call.endpoint, "/projects/")
                                 /\ Includes(call.endpoint, "/outline/") -> "Outline"
                              [] ~Includes(call.endpoint, "/projects/")
                                 /\ ~Includes(call.endpoint, "/outline/")
                                 /\ Includes(call.endpoint, "/section/") -> "Section"
                              [] OTHER -> "Resource")
           /\ rsp.body # "" => Includes(out.msg, rsp.body)

C24_Witness ==
    /\ Settled
    /\ rsp.status = 404
    /\ Includes(call.endpoint, "/projects/")
    /\ Includes(call.endpoint, "/outline/")
    /\ rsp.body = "oops"
    /\ out.msg[1] = "Project"

\* C25: a status that is not a success, 401 or 404 ends makeRequest with an
\* error of that status; a JSON body with a detail or message member has that
\* member in the message, and in every other case a body that is not empty is
\* in the message as it came.
C25_ErrorDetailAppended ==
    (Settled /\ rsp.kind = "response" /\ ~Ok(rsp.status) /\ rsp.status \notin {401, 404})
        => /\ out.kind = "thrown"
           /\ out.class = "ApiError"
           /\ out.status = rsp.status
           /\ LET json == JSONparse(rsp.body)
                  field == {m \in json.members : m[1] \in {"detail", "message"}}
              IN  IF json.valid /\ field # {}
                  THEN \E m \in field : Includes(out.msg, m[2])
                  ELSE rsp.body # "" => Includes(out.msg, rsp.body)

\* C26, as the claim has it: a success status always makes makeRequest return,
\* the parsed body for a JSON content type and the text for any other.
C26_SuccessReturnsBody ==
    (Settled /\ rsp.kind = "response" /\ Ok(rsp.status))
        => /\ out.kind = "returned"
           /\ out.class = (IF IsJsonType(rsp.ctype) THEN "json" ELSE "text")

\* C26: on a success status makeRequest returns the parsed body when the
\* content type is JSON and the body parses, and the text of the body for any
\* other content type; a JSON content type on a body that does not parse ends
\* it with the parser's error, which is neither an HTTP error nor a connection
\* failure.
C26_SuccessReturnsParsedBody ==
    (Settled /\ rsp.kind = "response" /\ Ok(rsp.status))
        => /\ IF ~IsJsonType(rsp.ctype)
              THEN out = Returned("text", {<<rsp.body>>})
              ELSE IF JSONparse(rsp.body).valid
              THEN /\ out.kind = "returned"
                   /\ out.class = "json"
                   /\ out.value = (IF rsp.body = "null" THEN {<<"null">>}
                                   ELSE JSONparse(rsp.body).members)
              ELSE out.kind = "thrown" /\ out.class = "SyntaxError"
           /\ out.class # "ApiError"
           /\ out # ConnectionFailed

C26_Witness ==
    /\ Settled
    /\ rsp.status = 201
    /\ IsJsonType(rsp.ctype)
    /\ rsp.body = "{\"detail\":\"boom\",\"message\":\"bad\"}"
    /\ out.kind = "returned"
    /\ <<"message", "bad">> \in out.value

\* C27: a fetch that fails without a response ends makeRequest with the
\* connection error that names the backend URL, never with an error of an
\* HTTP status; a response never ends it with the connection error.
C27_TransportFailure ==
    /\ (Settled /\ rsp.kind = "failure")
          => /\ out.kind = "thrown"
             /\ out.class = "Error"
             /\ out.msg[1] = "Failed to connect to Quibo backend at "
             /\ Includes(out.msg, BackendUrl)
    /\ (Settled /\ rsp.kind = "response")
          => ~Includes(out.msg, "Failed to connect to Quibo backend at ")

C27_Witness ==
    /\ Settled
    /\ rsp.kind = "failure"
    /\ out.class = "Error"
    /\ Len(sent) = 1

\* C28: a call of makeRequest sends at most one request, and once fetch has
\* settled the call is over: nothing is sent again.
C28_NoRetry ==
    /\ Len(sent) <= 1
    /\ rsp.kind # "none" => apc \in {"returned", "thrown"}
    /\ apc \in {"returned", "thrown"} => ~ENABLED Fetch

C28_Witness ==
    /\ tool = "api"
    /\ apc = "thrown"
    /\ rsp.kind = "response"
    /\ rsp.status = 500
    /\ Len(sent) = 1

Answered == tool = "none" /\ reply # NoReply

C32_StatusAgreesWithToken ==
    /\ checkAuth.authenticated = ~checkAuth.isExpired
    /\ getAccessToken.ok = checkAuth.authenticated
    /\ checkAuth.hasSession = store.present
    /\ store.present
          => /\ checkAuth.email = store.email
             /\ checkAuth.expiresAt = store.expiresAt
    /\ ret.op = "checkAuth" => ret.val = checkAuth
    /\ ret.op = "getAccessToken" => ret.val.ok = checkAuth.authenticated

\* C32 witness: checkAuth() was called on a stored session that has expired
\* and reported its email
C32_Witness ==
    /\ ret.op = "checkAuth"
    /\ store.present
    /\ ret.val.isExpired
    /\ ret.val.hasSession
    /\ ret.val.email = <<"u">>
    /\ ~getAccessToken.ok
    /\ now > 0

\* C33: the callback promise of a listener settles once, by the first of the
\* callback request, the timeout and the bind error: a resolved promise has
\* its timer cancelled and keeps its value, a rejected one was rejected by the
\* timeout or by the bind error and stays rejected, and only the next call of
\* authenticate() makes a new promise.
C33_SettlesOnce ==
    /\ [](future = "resolved" => timer = "cleared" /\ listener = "closed")
    /\ [](future = "rejected" =>
             \/ timer = "fired" /\ err.kind = "CallbackTimeout"
             \/ timer = "cleared" /\ listener = "error" /\ err.kind = "BindError")
    /\ [][(future \in {"resolved", "rejected"} /\ future' # future) =>
             (future' = "none" /\ pc' = "probing")]_vars
    /\ [][(future = "resolved" /\ future' = "resolved" /\ cb' # cb) =>
             (pc = "waiting" /\ pc' # "waiting" /\ cb' = NoParams)]_vars
    /\ [][(future = "pending" /\ future' = "resolved") =>
             (timer = "armed" /\ timer' = "cleared" /\ cb' \in OAuthCallbackParams)]_vars

\* C33 witness: the callback came first, and the time the timer was due has
\* passed with the promise still resolved
C33_Witness ==
    /\ future = "resolved"
    /\ timer = "cleared"
    /\ pc = "waiting"
    /\ deadline > 0
    /\ now >= deadline

\* C34: the callback server is bound on the port that is in the redirect URL
\* given to the provider; when another process has taken that port before the
\* bind, authenticate() fails with the bind error in that step, with the timer
\* cancelled and the store as it was, and no port is probed again before the
\* next authenticate call.
C34_RedirectPortIsBoundPort ==
    /\ [](bound # {} =>
             /\ Cardinality(bound) = 1
             /\ \A b \in bound : redirectUrl = <<"http://localhost:", ToString(b), "/callback">>)
    /\ [](listener = "listening" => bound # {})
    /\ [][(listener = "binding" /\ port \in busy) => listener' # "listening"]_vars
    /\ [][(listener = "binding" /\ listener' = "error") =>
             (/\ port \in busy
              /\ pc' = "failed"
              /\ err'.kind = "BindError"
              /\ timer' = "cleared"
              /\ bound' = {}
              /\ store' = store)]_vars
    /\ [][(pc # "probing" /\ pc' = "probing") =>
             (tool = "none" /\ tool' = "authenticate")]_vars
    /\ [][(tool = "authenticate" /\ err.kind = "BindError") => store' = store]_vars

\* C34 witness: the port of the redirect URL was taken before the bind and
\* the call has failed with the bind error
C34_Witness ==
    /\ tool = "authenticate"
    /\ pc = "failed"
    /\ err.kind = "BindError"
    /\ listener = "error"
    /\ timer = "cleared"
    /\ redirectUrl = <<"http://localhost:", ToString(StartPort + 1), "/callback">>
    /\ bound = {}

\* C35: a persisted session expires, whatever expires_in the callback
\* delivered: from any state with a stored session, a state follows in which
\* checkAuth() reports isExpired and getAccessToken() fails, or the session
\* has been removed; and an expired session stays expired as time goes on.
C35_SessionExpires ==
    /\ [](store.present =>
             <>(~store.present \/ (checkAuth.isExpired /\ ~getAccessToken.ok)))
    /\ [][(store.present /\ checkAuth.isExpired /\ store' = store) =>
             (checkAuth'.isExpired /\ ~getAccessToken'.ok)]_vars

\* C35 witness: a session that was live when it was persisted is found
\* expired by getAccessToken() once its expiry time has come
C35_Witness ==
    /\ store.present
    /\ store.expiresAt.k = "num"
    /\ store.expiresAt.v > 0
    /\ now >= store.expiresAt.v
    /\ ret.op = "getAccessToken"
    /\ ~ret.val.ok

\* the last tool call was answered with the session-expired error of a 401
After401 == tool = "none" /\ reply.isError /\ Includes(reply.text, SessionExpiredMessage)

\* C36: no step of makeRequest changes the stored session; after a 401 the
\* session is still there and checkAuth() reports it authenticated, and the
\* next request carries the same access token.
C36_RequestLeavesSession ==
    /\ [][(tool = "api" \/ tool' = "api") => store' = store]_vars
    /\ [](Settled /\ rsp.status = 401 => store.present /\ checkAuth.authenticated)
    /\ [](After401 => store.present /\ checkAuth.authenticated)
    /\ [][(After401 /\ tool' = "api") =>
             (/\ apc' = "fetching"
              /\ Len(sent') = 1
              /\ (\A h \in call'.headers : h[1] # "Authorization")
                    => <<"Authorization", <<"Bearer ">> \o store.accessToken>>
                          \in sent'[1].headers)]_vars

\* C36 witness: a tool call was answered with the error of a 401 and the
\* session is stored and live
C36_Witness ==
    /\ After401
    /\ store.present
    /\ store.accessToken = <<"a">>
    /\ getAccessToken.ok

\* C37: when two calls of authenticate() overlap and both save, the stored
\* session is the one the call that saved last built, in every field (as the
\* store returns it); it is never made of parts of both.
C37_LastWriterWins ==
    /\ last = 0 => ~store.present
    /\ last # 0
          => /\ inv[last].pc = "done"
             /\ store = [inv[last].auth EXCEPT !.expiresAt = IF @.k = "nan" THEN Null ELSE @]
             /\ store.accessToken = inv[last].loc.accessToken
             /\ store.refreshToken = inv[last].loc.refreshToken
             /\ store.id = <<"i", ToString(last)>>
             /\ store.email = <<"u", ToString(last)>>

\* C37 witness: both calls have saved, at different times and with different
\* tokens, and the second call to save was the one that started first
C37_Witness ==
    /\ last = 1
    /\ inv[1].pc = "done"
    /\ inv[2].pc = "done"
    /\ inv[1].auth.expiresAt # inv[2].auth.expiresAt
    /\ inv[1].loc.accessToken # inv[2].loc.accessToken
    /\ store.accessToken = inv[1].loc.accessToken
    /\ ret.op = "checkAuth"


\* the calls of log that generate a section, and the place of a call in log
SectionCalls(log) == {k \in 1..Len(log) : log[k][1] = "generate_section"}
Places(log, c) == {k \in 1..Len(log) : log[k] = c}

\* the sections a full run generates: those of the reported outline that the
\* specific_sections argument does not leave out
Wanted(g) ==
    {j \in 0..(g.count - 1) : g.specific = {} \/ <<"t", ToString(j)>> \in g.specific}

\* C38: in generate_content with operation 'full' the backend steps run in the
\* order outline, sections, compile: a section is generated only after outline
\* generation succeeded and the project status then showed at least one
\* section, sections are generated in index order, compile is called only
\* after every selected section was generated, and a step that fails is
\* followed by no further backend call and answered with an isError response
\* (gen.ok counts the calls that returned a result, so a call is made only
\* when every call before it has).
C38_FullRunsInOrder ==
    /\ [][(gen'.op = "full" /\ gen'.log # <<>>) =>
            /\ gen'.log[1] = <<"generate_outline">>
            /\ gen'.ok >= Len(gen'.log) - 1
            /\ Places(gen'.log, <<"generate_outline">>) = {1}
            /\ (SectionCalls(gen'.log) # {} =>
                    /\ gen'.log[2] = <<"project_status">>
                    /\ gen'.count >= 1
                    /\ \A k \in SectionCalls(gen'.log) :
                          /\ k >= 3
                          /\ \E j \in Wanted(gen') : gen'.log[k] = <<"generate_section", ToString(j)>>
                    /\ \A k, m \in SectionCalls(gen'.log) :
                          k < m => \E a, b \in Wanted(gen') :
                                      /\ a < b
                                      /\ gen'.log[k] = <<"generate_section", ToString(a)>>
                                      /\ gen'.log[m] = <<"generate_section", ToString(b)>>)
            /\ \A c \in Places(gen'.log, <<"compile_draft">>) :
                  /\ c = Len(gen'.log)
                  /\ gen'.count >= 1
                  /\ \A j \in Wanted(gen') :
                        \E k \in SectionCalls(gen'.log) :
                            k < c /\ gen'.log[k] = <<"generate_section", ToString(j)>>]_vars
    /\ [][(gen.op = "full" /\ tool = "generate_content" /\ gen'.pc = "failed") =>
            /\ gen'.log = gen.log
            /\ reply'.isError
            /\ tool' = "none"]_vars
    /\ [][(gen.op = "full" /\ tool = "generate_content" /\ gen'.log # gen.log) =>
            (gen'.pc \notin {"failed", "done"} /\ Len(gen'.log) = Len(gen.log) + 1
             /\ SubSeq(gen'.log, 1, Len(gen.log)) = gen.log)]_vars

\* a full run over an outline of two sections generated both and compiled
C38_Witness ==
    /\ gen.op = "full"
    /\ gen.pc = "done"
    /\ ~reply.isError
    /\ gen.count = 2
    /\ gen.specific = {}
    /\ gen.ok = 6
    /\ gen.log = <<<<"generate_outline">>, <<"project_status">>,
                   <<"generate_section", "0">>, <<"generate_section", "1">>,
                   <<"project_status">>, <<"compile_draft">>>>

====
